---- MODULE Spec2Model ----
(***************************************************************************)
(* Model of the shell in src/cmd/myshell/main.go: the quote-aware          *)
(* tokenizer (parseArgs), the segmenter (aggregateArgs), the command       *)
(* resolver (executeCommand and the get*Command functions) and the         *)
(* execution engine (handleInput with the built-in handlers).              *)
(*                                                                         *)
(* A Go string is a sequence of one-character strings, so that suffix      *)
(* tests, trimming, joining and integer parsing are computed as the code   *)
(* computes them.                                                          *)
(***************************************************************************)
EXTENDS Integers, Sequences, FiniteSets, TLC

\* ------------------------------------------------------------------------
\* Bounds
\* ------------------------------------------------------------------------
\* longest input line (in characters) given to parseArgs in SpecParse
MaxLen == 4
\* longest Word sequence given to aggregateArgs in SpecAgg
MaxWords == 4
\* most arguments of the command of a line of standard input in Spec
MaxArgs == 2
\* most redirects of a line of standard input in Spec
MaxRedirects == 1
\* most lines read from standard input in Spec
MaxLines == 1

\* number of lines standard input is given
MaxSupplied == 2

\* ------------------------------------------------------------------------
\* Strings
\* ------------------------------------------------------------------------
\* a rune whose UTF-8 encoding takes two bytes (U+00E9)
Eacute == "U+00E9"

\* number of bytes of the UTF-8 encoding of a rune
RuneLen(c) == IF c = Eacute THEN 2 ELSE 1

RECURSIVE ByteLen(_)
\* len(s) of a Go string: its length in bytes
ByteLen(s) == IF s = <<>> THEN 0 ELSE RuneLen(Head(s)) + ByteLen(Tail(s))

\* unicode.IsSpace restricted to the characters of the model
IsSpace(c) == c \in {" ", "\n", "\t"}

RECURSIVE TrimLeft(_)
TrimLeft(s) == IF s # <<>> /\ IsSpace(Head(s)) THEN TrimLeft(Tail(s)) ELSE s

RECURSIVE TrimRight(_)
TrimRight(s) ==
    IF s # <<>> /\ IsSpace(s[Len(s)]) THEN TrimRight(SubSeq(s, 1, Len(s) - 1)) ELSE s

\* strings.TrimSpace
TrimSpace(s) == TrimRight(TrimLeft(s))

RECURSIVE Join(_, _)
\* strings.Join(elems, sep)
Join(elems, sep) ==
    IF elems = <<>> THEN <<>>
    ELSE IF Len(elems) = 1 THEN elems[1]
    ELSE elems[1] \o sep \o Join(Tail(elems), sep)

RECURSIVE Flatten(_)
\* concatenation of a sequence of sequences
Flatten(ss) == IF ss = <<>> THEN <<>> ELSE Head(ss) \o Flatten(Tail(ss))

\* all sequences over S of length at most n
SeqsUpTo(S, n) == UNION {[1..k -> S] : k \in 0..n}

\* ------------------------------------------------------------------------
\* Segmenter
\* ------------------------------------------------------------------------
\* isRedirect: strings.HasSuffix(x, ">")
isRedirect(x) == Len(x) > 0 /\ x[Len(x)] = ">"

\* one iteration of the loop of aggregateArgs over args[i] (i is 1-based
\* here, 0-based in the code); st = [aggregates, currAggregate]
AggStepMarkerCloses(st, args, i) ==
    LET x == args[i]
        afterIf ==
            IF isRedirect(x)
            THEN [aggregates |-> Append(st.aggregates,
                                        Append(st.currAggregate, x)),
                  currAggregate |-> <<>>]
            ELSE [aggregates |-> st.aggregates,
                  currAggregate |-> Append(st.currAggregate, x)]
    IN  IF i = Len(args)
        THEN [afterIf EXCEPT !.aggregates = Append(@, afterIf.currAggregate)]
        ELSE afterIf

AggStepDropMarker(st, args, i) ==
    LET x == args[i]
        afterIf ==
            IF isRedirect(x)
            THEN [aggregates |-> Append(st.aggregates, st.currAggregate),
                  currAggregate |-> <<>>]
            ELSE [aggregates |-> st.aggregates,
                  currAggregate |-> Append(st.currAggregate, x)]
    IN  IF i = Len(args)
        THEN [afterIf EXCEPT !.aggregates = Append(@, afterIf.currAggregate)]
        ELSE afterIf

AggStepNoSplit(st, args, i) ==
    LET x == args[i]
        afterIf == [aggregates |-> st.aggregates,
                    currAggregate |-> Append(st.currAggregate, x)]
    IN  IF i = Len(args)
        THEN [afterIf EXCEPT !.aggregates = Append(@, afterIf.currAggregate)]
        ELSE afterIf

AggStep(st, args, i) ==
    LET x == args[i]
        afterIf ==
            IF isRedirect(x)
            THEN [aggregates |-> Append(st.aggregates, st.currAggregate),
                  currAggregate |-> <<x>>]
            ELSE [aggregates |-> st.aggregates,
                  currAggregate |-> Append(st.currAggregate, x)]
    IN  IF i = Len(args)
        THEN [afterIf EXCEPT !.aggregates = Append(@, afterIf.currAggregate)]
        ELSE afterIf

RECURSIVE AggLoop(_, _, _)
AggLoop(st, args, i) ==
    IF i > Len(args) THEN st ELSE AggLoop(AggStep(st, args, i), args, i + 1)

\* aggregateArgs: the Segments of a Word sequence
aggregateArgs(args) ==
    AggLoop([aggregates |-> <<>>, currAggregate |-> <<>>], args, 1).aggregates

\* ------------------------------------------------------------------------
\* Tokenizer
\* ------------------------------------------------------------------------
doubleQuoted == 0
doubleQuotedEscaped == 1
unquoted == 2
unquotedEscaped == 3
singleQuoted == 4

\* the backquote character
Backtick == "U+0060"

\* the characters that a backslash escapes inside double quotes
DoubleQuoteSpecialNoBackslash == {"\"", "$", Backtick, "\n"}

DoubleQuoteSpecial == {"\"", "$", Backtick, "\\", "\n"}

\* what parseArgs does with a finished word before appending it to args
EmitWord(w) == TrimSpace(w)

\* one iteration of the loop of parseArgs: st = [state, currWord, args],
\* x the rune read, i its byte offset, n = len(input)
ParseIter(st, x, i, n) ==
    LET state == st.state
        atEnd == (i = n - 1)
        \* if state == unquoted
        nextState1 ==
            IF state = unquoted
            THEN CASE x = "\"" -> doubleQuoted
                   [] x = "'"  -> singleQuoted
                   [] x = "\\" -> unquotedEscaped
                   [] OTHER    -> state
            ELSE state
        startNextWord ==
            IF state = unquoted /\ x = " "
            THEN atEnd \/ Len(st.currWord) > 0
            ELSE atEnd
        toAdd1 ==
            IF state = unquoted /\ x \notin {"\"", "'", "\\", " "} THEN <<x>> ELSE <<>>
        \* if state == unquotedEscaped
        nextState2 == IF state = unquotedEscaped THEN unquoted ELSE nextState1
        toAdd2 == IF state = unquotedEscaped THEN <<x>> ELSE toAdd1
        \* if state == singleQuoted
        nextState3 ==
            IF state = singleQuoted /\ x = "'" THEN unquoted ELSE nextState2
        toAdd3 == IF state = singleQuoted /\ x # "'" THEN <<x>> ELSE toAdd2
        \* if state == doubleQuoted
        nextState4 ==
            IF state = doubleQuoted
            THEN CASE x = "\\" -> doubleQuotedEscaped
                   [] x = "\"" -> unquoted
                   [] OTHER    -> nextState3
            ELSE nextState3
        toAdd4 ==
            IF state = doubleQuoted /\ x \notin {"\\", "\""} THEN <<x>> ELSE toAdd3
        \* if state == doubleQuotedEscaped
        nextState5 == IF state = doubleQuotedEscaped THEN doubleQuoted ELSE nextState4
        toAdd5 ==
            IF state = doubleQuotedEscaped
            THEN IF x \in DoubleQuoteSpecial THEN <<x>> ELSE <<"\\", x>>
            ELSE toAdd4
        word == st.currWord \o toAdd5
    IN  IF startNextWord
        THEN [state |-> nextState5, currWord |-> <<>>,
              args |-> Append(st.args, EmitWord(word))]
        ELSE [state |-> nextState5, currWord |-> word, args |-> st.args]

\* the state of parseArgs before the first iteration
ParseStart == [state |-> unquoted, currWord |-> <<>>, args |-> <<>>]

RECURSIVE ParseLoop(_, _, _, _, _)
\* the iterations of parseArgs from the k-th rune on; i is its byte offset
\* and n = len(input)
ParseLoop(st, input, k, i, n) ==
    IF k > Len(input) THEN st
    ELSE LET next == ParseIter(st, input[k], i, n)
         IN  \* an iteration is over before the next one starts
             IF next.state \in 0..4
             THEN ParseLoop(next, input, k + 1, i + RuneLen(input[k]), n)
             ELSE next

\* parseArgs: the Words of an input line
parseArgs(input) == ParseLoop(ParseStart, input, 1, 0, ByteLen(input)).args

\* ------------------------------------------------------------------------
\* Words and messages
\* ------------------------------------------------------------------------
W_echo == <<"e", "c", "h", "o">>
W_exit == <<"e", "x", "i", "t">>
W_cd == <<"c", "d">>
W_pwd == <<"p", "w", "d">>
W_type == <<"t", "y", "p", "e">>
W_ls == <<"l", "s">>
W_3 == <<"3">>
W_x == <<"x">>
W_d == <<"d">>
W_f == <<"f">>
W_tilde == <<"~">>
W_gt == <<">">>
W_2gt == <<"2", ">">>
W_a == <<"a">>
W_gta == <<">", "a">>
W_empty == <<>>

MsgTooFewRedirect == <<"t", "o", "o", " ", "f", "e", "w", " ", "a", "r", "g", "u", "m", "e", "n", "t", "s", " ", "f", "o", "r", " ", "r", "e", "d", "i", "r", "e", "c", "t">>
MsgTooManyArguments == <<"t", "o", "o", " ", "m", "a", "n", "y", " ", "a", "r", "g", "u", "m", "e", "n", "t", "s">>
MsgCommandNotFound == <<":", " ", "c", "o", "m", "m", "a", "n", "d", " ", "n", "o", "t", " ", "f", "o", "u", "n", "d">>
MsgCdPrefix == <<"c", "d", ":", " ">>
MsgCdSuffix == <<":", " ", "N", "o", " ", "s", "u", "c", "h", " ", "f", "i", "l", "e", " ", "o", "r", " ", "d", "i", "r", "e", "c", "t", "o", "r", "y">>
MsgIsBuiltin == <<" ", "i", "s", " ", "a", " ", "s", "h", "e", "l", "l", " ", "b", "u", "i", "l", "t", "i", "n">>
MsgIs == <<" ", "i", "s", " ">>
MsgNotFound == <<":", " ", "n", "o", "t", " ", "f", "o", "u", "n", "d">>
MsgAtoiPrefix == <<"s", "t", "r", "c", "o", "n", "v", ".", "A", "t", "o", "i", ":", " ", "p", "a", "r", "s", "i", "n", "g", " ", "\"">>
MsgAtoiSuffix == <<"\"", ":", " ", "i", "n", "v", "a", "l", "i", "d", " ", "s", "y", "n", "t", "a", "x">>
MsgOpenPrefix == <<"o", "p", "e", "n", " ">>
MsgIsADirectory == <<":", " ", "i", "s", " ", "a", " ", "d", "i", "r", "e", "c", "t", "o", "r", "y">>
MsgClosing == <<"c", "l", "o", "s", "i", "n", "g", " ", "s", "h", "e", "l", "l", ".", ".", ".">>
MsgNoSuchFile == <<":", " ", "n", "o", " ", "s", "u", "c", "h", " ", "f", "i", "l", "e", " ", "o", "r", " ", "d", "i", "r", "e", "c", "t", "o", "r", "y">>

\* ------------------------------------------------------------------------
\* Process environment and filesystem
\* ------------------------------------------------------------------------
\* A filesystem is a function from the absolute paths that exist to nodes
\* [isDir, perm, content]; perm is the nine permission bits as a number.
DirRoot == <<"/">>
DirD == <<"/", "d">>
DirBin1 == <<"/", "b", "1">>
DirBin2 == <<"/", "b", "2">>

\* strings.Split(os.Getenv("PATH"), ":") for PATH=/b1:/b2
PathDirs == <<DirBin1, DirBin2>>

\* os.UserHomeDir() for HOME=/
HomeDir == DirRoot

\* permission bits 0o755, 0o644 and 0o654 (executable by the group only)
Perm755 == 493
Perm644 == 420
Perm654 == 428

DirNode == [isDir |-> TRUE, perm |-> Perm755, content |-> <<>>]
FileNode(perm, content) == [isDir |-> FALSE, perm |-> perm, content |-> content]

\* filepath.Join of a directory and a name free of "." and ".." elements
PathJoin(dir, name) ==
    IF dir = <<>> THEN name
    ELSE IF name = <<>> THEN dir
    ELSE IF dir[Len(dir)] = "/" THEN dir \o name
    ELSE dir \o <<"/">> \o name

\* the absolute path a system call resolves name to; <<>> is no path
AbsPath(cwd, name) ==
    IF name = <<>> THEN <<>>
    ELSE IF name[1] = "/" THEN name
    ELSE PathJoin(cwd, name)

\* os.Stat(name) succeeds
StatOk(fs, cwd, name) == AbsPath(cwd, name) \in DOMAIN fs

StatNode(fs, cwd, name) == fs[AbsPath(cwd, name)]

RECURSIVE LastSlash(_, _)
LastSlash(p, i) == IF i = 0 THEN 0 ELSE IF p[i] = "/" THEN i ELSE LastSlash(p, i - 1)

\* filepath.Base of a path that does not end in a slash
Base(p) == SubSeq(p, LastSlash(p, Len(p)) + 1, Len(p))

\* ------------------------------------------------------------------------
\* Command resolver
\* ------------------------------------------------------------------------
cmdBuiltin == 0
cmdCompound == 1
cmdNotFound == 2
cmdSystem == 3

\* the keys of the builtins map of getBuiltinCommand
BuiltinNames == {W_cd, W_echo, W_exit, W_pwd, W_type}

\* getCompoundCommand: the command type
getCompoundCommand(commandName) ==
    IF isRedirect(commandName) THEN cmdCompound ELSE cmdNotFound

\* getBuiltinCommand: the command type
getBuiltinCommand(commandName) ==
    IF commandName \in BuiltinNames THEN cmdBuiltin ELSE cmdNotFound

\* the test of getSystemCommand on one PATH candidate
IsCandidate(fs, cwd, cmdPath) ==
    /\ StatOk(fs, cwd, cmdPath)
    /\ (StatNode(fs, cwd, cmdPath).perm \div 64) % 2 = 1

RECURSIVE SystemSearch(_, _, _, _, _)
\* the loop of getSystemCommand from the i-th PATH directory on
SystemSearch(paths, i, commandName, fs, cwd) ==
    IF i > Len(paths) THEN [path |-> <<>>, cmdType |-> cmdNotFound]
    ELSE IF IsCandidate(fs, cwd, PathJoin(paths[i], commandName))
         THEN [path |-> PathJoin(paths[i], commandName), cmdType |-> cmdSystem]
         ELSE SystemSearch(paths, i + 1, commandName, fs, cwd)

\* getSystemCommand: [path, cmdType]
getSystemCommand(commandName, fs, cwd) ==
    SystemSearch(PathDirs, 1, commandName, fs, cwd)

\* the branch executeCommand takes for a command name
commandKindSystemFirst(commandName, fs, cwd) ==
    IF getSystemCommand(commandName, fs, cwd).cmdType = cmdSystem THEN cmdSystem
    ELSE IF getCompoundCommand(commandName) = cmdCompound THEN cmdCompound
    ELSE IF getBuiltinCommand(commandName) = cmdBuiltin THEN cmdBuiltin
    ELSE cmdNotFound

commandKind(commandName, fs, cwd) ==
    IF getCompoundCommand(commandName) = cmdCompound THEN cmdCompound
    ELSE IF getBuiltinCommand(commandName) = cmdBuiltin THEN cmdBuiltin
    ELSE IF getSystemCommand(commandName, fs, cwd).cmdType = cmdSystem THEN cmdSystem
    ELSE cmdNotFound

\* ------------------------------------------------------------------------
\* Execution contexts and handlers
\* ------------------------------------------------------------------------
\* newExecutionConfig
newExecutionConfig(commandName, args) ==
    [args |-> args, commandName |-> commandName, status |-> 1,
     stdErr |-> <<>>, stdOut |-> <<>>]

\* the elements of s after the first n
Drop(s, n) == SubSeq(s, n + 1, Len(s))

\* the directory part of an absolute path
Dir(p) == IF LastSlash(p, Len(p)) <= 1 THEN DirRoot
          ELSE SubSeq(p, 1, LastSlash(p, Len(p)) - 1)

\* the content of a file after Write(data) at offset 0 of a file opened
\* without O_TRUNC: the bytes past the written ones stay
WriteAtStart(old, data) == data \o Drop(old, Len(data))

\* what handleRedirect prints on os.Stderr itself, when it is not empty
RedirectEchoStdOut(prevConfig) == prevConfig.stdOut

RedirectEcho(prevConfig) == prevConfig.stdErr

\* handleRedirect: [config, fs, toStderr], toStderr being what it prints
\* on os.Stderr itself
handleRedirect(config, prevConfig, fs, cwd) ==
    IF Len(config.args) < 2
    THEN [config |-> [config EXCEPT !.stdOut = MsgTooFewRedirect],
          fs |-> fs, toStderr |-> <<>>]
    ELSE
    LET fileName == config.args[2]
        fileArgs == <<prevConfig.stdOut>> \o Drop(config.args, 2)
        data == Join(fileArgs, <<>>)
        abs == AbsPath(cwd, fileName)
        notExist == ~StatOk(fs, cwd, fileName)
        \* os.Create
        createOk == /\ abs # <<>>
                    /\ Dir(abs) \in DOMAIN fs
                    /\ fs[Dir(abs)].isDir
        \* os.OpenFile(fileName, os.O_WRONLY, 0o644)
        openOk == ~fs[abs].isDir
        ok == IF notExist THEN createOk ELSE openOk
        errText == IF notExist
                   THEN MsgOpenPrefix \o fileName \o MsgNoSuchFile
                   ELSE MsgOpenPrefix \o fileName \o MsgIsADirectory
        newFs == IF notExist
                 THEN [q \in DOMAIN fs \cup {abs} |->
                          IF q = abs THEN FileNode(Perm644, data) ELSE fs[q]]
                 ELSE [fs EXCEPT ![abs].content = WriteAtStart(@, data)]
    IN  [config |-> IF ok THEN [config EXCEPT !.status = 0]
                    ELSE [config EXCEPT !.stdErr = errText],
         fs |-> IF ok THEN newFs ELSE fs,
         toStderr |-> RedirectEcho(prevConfig)]

\* the value of a decimal digit, -1 for any other character
DigitVal(c) ==
    CASE c = "0" -> 0 [] c = "1" -> 1 [] c = "2" -> 2 [] c = "3" -> 3
      [] c = "4" -> 4 [] c = "5" -> 5 [] c = "6" -> 6 [] c = "7" -> 7
      [] c = "8" -> 8 [] c = "9" -> 9 [] OTHER -> -1

RECURSIVE DigitsVal(_, _)
\* the value of a digit string after the accumulated value acc, -1 if some
\* character is not a digit
DigitsVal(s, acc) ==
    IF s = <<>> THEN acc
    ELSE IF DigitVal(Head(s)) < 0 THEN -1
    ELSE DigitsVal(Tail(s), 10 * acc + DigitVal(Head(s)))

\* strconv.Atoi on strings short enough to be in range: [ok, val]
Atoi(s) ==
    LET signed == s # <<>> /\ Head(s) \in {"+", "-"}
        digits == IF signed THEN Tail(s) ELSE s
        v == IF digits = <<>> THEN -1 ELSE DigitsVal(digits, 0)
    IN  IF v < 0 THEN [ok |-> FALSE, val |-> 0]
        ELSE [ok |-> TRUE, val |-> IF signed /\ Head(s) = "-" THEN 0 - v ELSE v]

\* handleExit: [config, exits]; exits says that os.Exit(config.status) is
\* reached
handleExitInverted(config) ==
    LET args == config.args IN
    IF Len(args) > 2
    THEN [config |-> [config EXCEPT !.stdErr = MsgTooManyArguments], exits |-> FALSE]
    ELSE IF Len(args) > 1
    THEN IF ~Atoi(args[2]).ok
         THEN [config |-> [config EXCEPT !.status = Atoi(args[2]).val],
               exits |-> TRUE]
         ELSE [config |-> config, exits |-> TRUE]
    ELSE [config |-> config, exits |-> TRUE]

handleExitZeroOnParseError(config) ==
    LET args == config.args IN
    IF Len(args) > 2
    THEN [config |-> [config EXCEPT !.stdErr = MsgTooManyArguments], exits |-> FALSE]
    ELSE IF Len(args) > 1
    THEN IF ~Atoi(args[2]).ok
         THEN [config |-> [config EXCEPT
                   !.stdErr = MsgAtoiPrefix \o args[2] \o MsgAtoiSuffix,
                   !.status = 0],
               exits |-> TRUE]
         ELSE [config |-> [config EXCEPT !.status = Atoi(args[2]).val],
               exits |-> TRUE]
    ELSE [config |-> config, exits |-> TRUE]

handleExitAlways(config) ==
    LET args == config.args IN
    IF Len(args) > 2
    THEN [config |-> [config EXCEPT !.stdErr = MsgTooManyArguments], exits |-> TRUE]
    ELSE IF Len(args) > 1
    THEN IF ~Atoi(args[2]).ok
         THEN [config |-> [config EXCEPT
                   !.stdErr = MsgAtoiPrefix \o args[2] \o MsgAtoiSuffix],
               exits |-> TRUE]
         ELSE [config |-> [config EXCEPT !.status = Atoi(args[2]).val],
               exits |-> TRUE]
    ELSE [config |-> config, exits |-> TRUE]

handleExit(config) ==
    LET args == config.args IN
    IF Len(args) > 2
    THEN [config |-> [config EXCEPT !.stdErr = MsgTooManyArguments], exits |-> FALSE]
    ELSE IF Len(args) > 1
    THEN IF ~Atoi(args[2]).ok
         THEN [config |-> [config EXCEPT
                   !.stdErr = MsgAtoiPrefix \o args[2] \o MsgAtoiSuffix],
               exits |-> TRUE]
         ELSE [config |-> [config EXCEPT !.status = Atoi(args[2]).val],
               exits |-> TRUE]
    ELSE [config |-> config, exits |-> TRUE]

\* os.Chdir(path) succeeds
ChdirOk(fs, cwd, path) ==
    /\ StatOk(fs, cwd, path)
    /\ StatNode(fs, cwd, path).isDir

\* the path handleCd passes to os.Chdir
CdPath(config) ==
    LET path == TrimSpace(Join(Drop(config.args, 1), <<>>))
    IN  IF path = W_tilde THEN HomeDir ELSE path

\* handleCd: [config, cwd]
handleCdMovesAnyway(config, fs, cwd) ==
    LET path == CdPath(config) IN
    IF ChdirOk(fs, cwd, path)
    THEN [config |-> [config EXCEPT !.status = 0], cwd |-> AbsPath(cwd, path)]
    ELSE [config |-> [config EXCEPT
              !.stdErr = MsgCdPrefix \o path \o MsgCdSuffix],
          cwd |-> AbsPath(cwd, path)]

handleCd(config, fs, cwd) ==
    LET path == CdPath(config) IN
    IF ChdirOk(fs, cwd, path)
    THEN [config |-> [config EXCEPT !.status = 0], cwd |-> AbsPath(cwd, path)]
    ELSE [config |-> [config EXCEPT
              !.stdErr = MsgCdPrefix \o path \o MsgCdSuffix],
          cwd |-> cwd]

\* handleEcho
handleEcho(config) ==
    [config EXCEPT !.status = 0, !.stdOut = Join(Drop(config.args, 1), <<" ">>)]

\* handlePwd; os.Getwd() does not fail, nothing removes a directory
handlePwd(config, cwd) ==
    IF Len(Drop(config.args, 1)) > 2
    THEN [config EXCEPT !.stdErr = MsgTooManyArguments]
    ELSE [config EXCEPT !.stdOut = cwd, !.status = 0]

\* the key and the type handleType stores for one name
TypeEntry(x, fs, cwd) ==
    IF getBuiltinCommand(x) # cmdNotFound THEN [key |-> x, type |-> cmdBuiltin]
    ELSE IF getSystemCommand(x, fs, cwd).cmdType # cmdNotFound
         THEN [key |-> getSystemCommand(x, fs, cwd).path, type |-> cmdSystem]
         ELSE [key |-> x, type |-> cmdNotFound]

RECURSIVE TypeMap(_, _, _, _)
\* typeByCommand after the first loop of handleType over commands
TypeMap(commands, m, fs, cwd) ==
    IF commands = <<>> THEN m
    ELSE LET e == TypeEntry(Head(commands), fs, cwd)
         IN  TypeMap(Tail(commands),
                     [k \in DOMAIN m \cup {e.key} |->
                         IF k = e.key THEN e.type ELSE m[k]],
                     fs, cwd)

\* the message the second loop of handleType formats for one map entry
TypeMessage(cmd, cmdType) ==
    CASE cmdType = cmdBuiltin -> cmd \o MsgIsBuiltin
      [] cmdType = cmdSystem -> Base(cmd) \o MsgIs \o cmd
      [] OTHER -> cmd \o MsgNotFound

\* handleType, were the map visited in one fixed order
handleTypeFixedOrder(config, fs, cwd) ==
    LET m == TypeMap(Drop(config.args, 1), <<>>, fs, cwd)
        found == {k \in DOMAIN m : m[k] # cmdNotFound}
        missing == {k \in DOMAIN m : m[k] = cmdNotFound}
        lastFound == CHOOSE k \in found : TRUE
        lastMissing == CHOOSE k \in missing : TRUE
    IN  {[config EXCEPT
            !.stdOut = IF found = {} THEN config.stdOut
                       ELSE TypeMessage(lastFound, m[lastFound]),
            !.stdErr = IF missing = {} THEN config.stdErr
                       ELSE TypeMessage(lastMissing, m[lastMissing]),
            !.status = IF found = {} THEN config.status ELSE 0]}

\* handleType: the contexts it can return. The second loop visits the map
\* in an unspecified order; stdOut is left by the last entry visited among
\* the found ones and stdErr by the last among the others.
handleType(config, fs, cwd) ==
    LET m == TypeMap(Drop(config.args, 1), <<>>, fs, cwd)
        found == {k \in DOMAIN m : m[k] # cmdNotFound}
        missing == {k \in DOMAIN m : m[k] = cmdNotFound}
        outs == IF found = {} THEN {config.stdOut}
                ELSE {TypeMessage(k, m[k]) : k \in found}
        errs == IF missing = {} THEN {config.stdErr}
                ELSE {TypeMessage(k, m[k]) : k \in missing}
    IN  {[config EXCEPT !.stdOut = o, !.stdErr = e,
                        !.status = IF found = {} THEN config.status ELSE 0] :
            o \in outs, e \in errs}

\* handleNotFound
handleNotFound(config) ==
    [config EXCEPT !.stdErr = config.args[1] \o MsgCommandNotFound]

\* what handleInput writes after its loop for the context prevExecution:
\* no write, or one write [fd, text]
reportOutputUntrimmedStdout(prevExecution) ==
    IF Len(prevExecution.stdOut) > 0
    THEN <<[fd |-> "stdout", text |-> prevExecution.stdOut \o <<"\n">>]>>
    ELSE <<>>

reportOutput(prevExecution) ==
    LET status == prevExecution.status
        fd == IF status = 0 THEN "stdout" ELSE "stderr"
        output == IF status = 0 THEN TrimSpace(prevExecution.stdOut)
                  ELSE TrimSpace(prevExecution.stdErr)
    IN  IF Len(output) > 0
        THEN <<[fd |-> fd, text |-> output \o <<"\n">>]>>
        ELSE <<>>

\* what a child process can do: [ok, out, err] with ok its success, out
\* its standard output and err its standard error
SysOutcomes ==
    {[ok |-> TRUE, out |-> <<"o", "\n">>, err |-> <<>>],
     [ok |-> FALSE, out |-> <<>>, err |-> <<"e", "\n">>],
     [ok |-> FALSE, out |-> <<"o", "\n">>, err |-> <<"e", "\n">>],
     [ok |-> FALSE, out |-> <<>>, err |-> <<>>]}

\* starting a directory fails before anything is written
ExecOutcomes(fs, cwd, cmdPath) ==
    IF StatNode(fs, cwd, cmdPath).isDir
    THEN {[ok |-> FALSE, out |-> <<>>, err |-> <<>>]}
    ELSE SysOutcomes

\* execSystemCommand: the contexts it can return
execSystemCommand(config, fs, cwd) ==
    {[config EXCEPT !.status = IF r.ok THEN 0 ELSE config.status,
                    !.stdErr = IF r.ok THEN config.stdErr ELSE r.err,
                    !.stdOut = r.out] :
        r \in ExecOutcomes(fs, cwd, config.commandName)}

\* ------------------------------------------------------------------------
\* State
\* ------------------------------------------------------------------------
VARIABLES
    \* parseArgs run one iteration at a time
    pInput,     \* the input line
    pK,         \* number of runes consumed
    pI,         \* byte offset of the next rune
    pSt,        \* [state, currWord, args]
    pPrev,      \* the state before the last iteration and the rune it read
    pDone,      \* parseArgs has returned
    \* aggregateArgs
    aArgs,      \* the Word sequence
    aOut,       \* the returned Segments
    aDone,      \* aggregateArgs has returned
    \* executeCommand's choice of a handler
    rName,      \* the command name
    rKind,      \* the command type of the branch taken
    rPath,      \* the path handed to execSystemCommand
    rDone,      \* the choice is made
    \* the shell
    pc,             \* "read": main waits for a line; "run": handleInput is
                    \* in its loop; "reported": handleInput is about to
                    \* return; "exited": the process has terminated
    input,          \* the line handleInput was called with
    segs,           \* aggregatedArgs
    idx,            \* index of the next Segment of the loop
    prevExecution,  \* prevExecution of handleInput
    trace,          \* the Segments executed for this line: [seg, kind]
    written,        \* what was written for this line: [fd, text]
    fs,             \* the filesystem
    cwd,            \* the working directory of the process
    exitStatus,     \* the argument of os.Exit once pc = "exited"
    linesRead,      \* number of lines read so far
    \* standard input as a stream of bytes
    stdin,          \* the bytes no read has taken yet
    supplied,       \* the lines standard input was given
    handled         \* the lines handleInput was called with, in order

parseVars == <<pInput, pK, pI, pSt, pPrev, pDone>>
aggVars == <<aArgs, aOut, aDone>>
resolveVars == <<rName, rKind, rPath, rDone>>
shellVars == <<pc, input, segs, idx, prevExecution, trace, written, cwd,
               exitStatus, linesRead>>
stdinVars == <<stdin, supplied, handled>>
vars == <<parseVars, aggVars, resolveVars, shellVars, stdinVars, fs>>

NoIter == [state |-> unquoted, x |-> "", emitted |-> FALSE]

ParseIdle == /\ pInput = <<>>
             /\ pK = 0
             /\ pI = 0
             /\ pSt = ParseStart
             /\ pPrev = NoIter
             /\ pDone = FALSE

AggIdle == /\ aArgs = <<>>
           /\ aOut = <<>>
           /\ aDone = FALSE

ResolveIdle == /\ rName = <<>>
               /\ rKind = cmdNotFound
               /\ rPath = <<>>
               /\ rDone = FALSE

StdinIdle == /\ stdin = <<>>
             /\ supplied = <<>>
             /\ handled = <<>>

\* the directories every filesystem of the model has
BaseFs == [q \in {DirRoot, DirD, DirBin1, DirBin2} |-> DirNode]

ShellIdle == /\ pc = "read"
             /\ input = <<>>
             /\ segs = <<>>
             /\ idx = 1
             /\ prevExecution = newExecutionConfig(<<>>, <<>>)
             /\ trace = <<>>
             /\ written = <<>>
             /\ cwd = DirRoot
             /\ exitStatus = 0
             /\ linesRead = 0

\* ------------------------------------------------------------------------
\* SpecParse: parseArgs on every line of at most MaxLen characters
\* ------------------------------------------------------------------------
ParseAlphabet == {"a", " ", "\\", "\"", "'", Eacute}

InitParse ==
    /\ pInput \in SeqsUpTo(ParseAlphabet, MaxLen)
    /\ pK = 0
    /\ pI = 0
    /\ pSt = ParseStart
    /\ pPrev = NoIter
    /\ pDone = FALSE
    /\ AggIdle
    /\ ResolveIdle
    /\ ShellIdle
    /\ StdinIdle
    /\ fs = BaseFs

\* one iteration of the loop of parseArgs
ParseStep ==
    /\ ~pDone
    /\ pK < Len(pInput)
    /\ LET x == pInput[pK + 1]
           st2 == ParseIter(pSt, x, pI, ByteLen(pInput))
       IN  /\ pSt' = st2
           /\ pPrev' = [state |-> pSt.state, x |-> x,
                        emitted |-> Len(st2.args) > Len(pSt.args)]
           /\ pK' = pK + 1
           /\ pI' = pI + RuneLen(x)
    /\ UNCHANGED <<pInput, pDone, aggVars, resolveVars, stdinVars, shellVars, fs>>

\* the loop is over: parseArgs returns args
ParseReturn ==
    /\ ~pDone
    /\ pK = Len(pInput)
    /\ pDone' = TRUE
    /\ UNCHANGED <<pInput, pK, pI, pSt, pPrev, aggVars, resolveVars, stdinVars, shellVars, fs>>

NextParse == ParseStep \/ ParseReturn

SpecParse == InitParse /\ [][NextParse]_vars

\* ------------------------------------------------------------------------
\* SpecAgg: aggregateArgs on every sequence of at most MaxWords Words
\* ------------------------------------------------------------------------
AggWords == {W_gt, W_2gt, W_a, W_gta, W_empty}

InitAgg ==
    /\ aArgs \in SeqsUpTo(AggWords, MaxWords)
    /\ aOut = <<>>
    /\ aDone = FALSE
    /\ ParseIdle
    /\ ResolveIdle
    /\ ShellIdle
    /\ StdinIdle
    /\ fs = BaseFs

\* the call aggregateArgs(args)
Aggregate ==
    /\ ~aDone
    /\ aOut' = aggregateArgs(aArgs)
    /\ aDone' = TRUE
    /\ UNCHANGED <<aArgs, parseVars, resolveVars, shellVars, stdinVars, fs>>

NextAgg == Aggregate

SpecAgg == InitAgg /\ [][NextAgg]_vars

\* ------------------------------------------------------------------------
\* SpecResolve: executeCommand's choice of a handler, for every content
\* of the PATH directories
\* ------------------------------------------------------------------------
\* the command names looked up
ResolveNames == {W_ls, W_echo, W_gt, W_x}

\* the names a PATH directory may hold
PathEntryNames == {W_ls, W_echo, W_gt}

\* what a PATH directory may hold under a name
PathEntryNodes ==
    {FileNode(Perm755, <<>>), FileNode(Perm644, <<>>), FileNode(Perm654, <<>>),
     DirNode}

\* the paths PATH lookups can reach
PathCandidates ==
    {PathJoin(PathDirs[i], n) : i \in 1..Len(PathDirs), n \in PathEntryNames}

\* the filesystem that holds BaseFs and the nodes of the partial map m
WithNodes(m) == [q \in DOMAIN BaseFs \cup DOMAIN m |->
                    IF q \in DOMAIN m THEN m[q] ELSE BaseFs[q]]

InitResolve ==
    /\ \E present \in SUBSET PathCandidates :
         \E m \in [present -> PathEntryNodes] : fs = WithNodes(m)
    /\ rName \in ResolveNames
    /\ rKind = cmdNotFound
    /\ rPath = <<>>
    /\ rDone = FALSE
    /\ ParseIdle
    /\ AggIdle
    /\ ShellIdle
    /\ StdinIdle

\* the if-chain of executeCommand up to the call of the handler
Resolve ==
    /\ ~rDone
    /\ rKind' = commandKind(rName, fs, cwd)
    /\ rPath' = IF commandKind(rName, fs, cwd) = cmdSystem
                THEN getSystemCommand(rName, fs, cwd).path ELSE <<>>
    /\ rDone' = TRUE
    /\ UNCHANGED <<rName, parseVars, aggVars, shellVars, stdinVars, fs>>

NextResolve == Resolve

SpecResolve == InitResolve /\ [][NextResolve]_vars

\* ------------------------------------------------------------------------
\* Spec: the shell, main and handleInput with the handlers
\* ------------------------------------------------------------------------
\* the command names the lines start with: the built-ins, a program of
\* the PATH directories and a name that is no command
CmdNames == {W_echo, W_exit, W_cd, W_pwd, W_type, W_ls, W_x}

\* the Words the arguments of each command are made of: a number, the
\* name of a directory, command names and the home directory
ArgWords(c) ==
    CASE c \in {W_echo, W_exit} -> {W_3, W_d}
      [] c = W_cd -> {W_3, W_d, W_tilde}
      [] c = W_type -> {W_echo, W_ls, W_3}
      [] OTHER -> {W_3}

\* a command and its arguments
CmdParts ==
    UNION {{<<c>> \o as : as \in SeqsUpTo(ArgWords(c), MaxArgs)} : c \in CmdNames}

\* a redirect marker and what follows it
RedirectParts == {<<W_gt>>, <<W_gt, W_f>>, <<W_gt, W_d>>, <<W_gt, W_f, W_3>>}

\* the Word sequences of the lines: a command or nothing, then at most
\* MaxRedirects redirects
LineWords ==
    {Flatten(<<c>> \o rs) : c \in CmdParts \cup {<<>>},
                            rs \in SeqsUpTo(RedirectParts, MaxRedirects)}

\* the lines of standard input: the Words separated by one space, with the
\* newline ReadString leaves at the end
Lines == {Join(ws, <<" ">>) \o <<"\n">> : ws \in LineWords}

\* what the file f of the root directory may hold when the shell starts
InitFiles == {<<>>, <<"a", "b", "c">>}

\* the filesystems the shell may start in: the PATH directory /b1 holds
\* the programs ls and echo, and /f may exist
InitFilesystems ==
    {WithNodes([q \in {PathJoin(DirBin1, W_ls), PathJoin(DirBin1, W_echo)} |->
                   FileNode(Perm755, <<>>)])} \cup
    {WithNodes([q \in {PathJoin(DirBin1, W_ls), PathJoin(DirBin1, W_echo),
                       PathJoin(DirRoot, W_f)} |->
                   IF q = PathJoin(DirRoot, W_f) THEN FileNode(Perm644, c)
                   ELSE FileNode(Perm755, <<>>)]) : c \in InitFiles}

Init ==
    /\ fs \in InitFilesystems
    /\ pc = "read"
    /\ input = <<>>
    /\ segs = <<>>
    /\ idx = 1
    /\ prevExecution = newExecutionConfig(<<>>, <<>>)
    /\ trace = <<>>
    /\ written = <<>>
    /\ cwd = DirRoot
    /\ exitStatus = 0
    /\ linesRead = 0
    /\ ParseIdle
    /\ AggIdle
    /\ ResolveIdle
    /\ StdinIdle

\* aggregatedArgs of handleInput for each line
SegmentsOf == [l \in Lines |-> aggregateArgs(parseArgs(TrimSpace(l)))]

\* main reads a line and calls handleInput, which runs up to its loop
ReadLine ==
    /\ pc = "read"
    /\ linesRead < MaxLines
    /\ \E l \in Lines :
         /\ input' = l
         /\ segs' = SegmentsOf[l]
    /\ idx' = 1
    /\ prevExecution' = newExecutionConfig(<<>>, <<>>)
    /\ trace' = <<>>
    /\ written' = <<>>
    /\ linesRead' = linesRead + 1
    /\ pc' = "run"
    /\ UNCHANGED <<cwd, exitStatus, fs, parseVars, aggVars, resolveVars, stdinVars>>

\* main reads end of input: it prints the closing message and exits
ReadEOF ==
    /\ pc = "read"
    /\ written' = <<[fd |-> "stdout", text |-> MsgClosing \o <<"\n">>]>>
    /\ exitStatus' = 0
    /\ pc' = "exited"
    /\ UNCHANGED <<input, segs, idx, prevExecution, trace, cwd, linesRead, fs,
                   parseVars, aggVars, resolveVars, stdinVars>>

\* the loop of handleInput is at a Segment
InLoop == pc = "run" /\ idx <= Len(segs)

\* the Segment the loop is at
CurSeg == segs[idx]

\* execution of handleInput: the context executeCommand is called with
CurConfig == newExecutionConfig(TrimSpace(CurSeg[1]), CurSeg)

\* the branch executeCommand takes for the Segment the loop is at
CurKind == commandKind(CurConfig.commandName, fs, cwd)

\* the loop, were it to stop at the first failed Segment
ReturnedStopsOnFailure(config, kind) ==
    /\ prevExecution' = config
    /\ trace' = Append(trace, [seg |-> idx, kind |-> kind, config |-> config])
    /\ idx' = IF config.status # 0 THEN Len(segs) + 1 ELSE idx + 1
    /\ UNCHANGED <<pc, input, segs, exitStatus, linesRead,
                   parseVars, aggVars, resolveVars, stdinVars>>

\* the loop assigns the returned context to prevExecution and goes on
Returned(config, kind) ==
    /\ prevExecution' = config
    /\ trace' = Append(trace, [seg |-> idx, kind |-> kind, config |-> config])
    /\ idx' = idx + 1
    /\ UNCHANGED <<pc, input, segs, exitStatus, linesRead,
                   parseVars, aggVars, resolveVars, stdinVars>>

\* an empty Segment: continue
SkipEmpty ==
    /\ InLoop
    /\ Len(CurSeg) = 0
    /\ idx' = idx + 1
    /\ UNCHANGED <<pc, input, segs, prevExecution, trace, written, cwd,
                   exitStatus, linesRead, fs, parseVars, aggVars, resolveVars, stdinVars>>

\* executeCommand calls handleRedirect
ExecRedirect ==
    /\ InLoop
    /\ Len(CurSeg) > 0
    /\ CurKind = cmdCompound
    /\ LET r == handleRedirect(CurConfig, prevExecution, fs, cwd)
       IN  /\ fs' = r.fs
           /\ written' = IF Len(r.toStderr) > 0
                         THEN Append(written, [fd |-> "stderr", text |-> r.toStderr])
                         ELSE written
           /\ Returned(r.config, cmdCompound)
    /\ UNCHANGED cwd

\* executeCommand calls handleCd
ExecCd ==
    /\ InLoop
    /\ Len(CurSeg) > 0
    /\ CurKind = cmdBuiltin
    /\ CurConfig.commandName = W_cd
    /\ LET r == handleCd(CurConfig, fs, cwd)
       IN  /\ cwd' = r.cwd
           /\ Returned(r.config, cmdBuiltin)
    /\ UNCHANGED <<written, fs>>

\* executeCommand calls handleEcho
ExecEcho ==
    /\ InLoop
    /\ Len(CurSeg) > 0
    /\ CurKind = cmdBuiltin
    /\ CurConfig.commandName = W_echo
    /\ Returned(handleEcho(CurConfig), cmdBuiltin)
    /\ UNCHANGED <<written, cwd, fs>>

\* executeCommand calls handleExit, which returns or ends the process
ExecExit ==
    /\ InLoop
    /\ Len(CurSeg) > 0
    /\ CurKind = cmdBuiltin
    /\ CurConfig.commandName = W_exit
    /\ LET r == handleExit(CurConfig)
       IN  IF r.exits
           THEN /\ pc' = "exited"
                /\ exitStatus' = r.config.status
                /\ trace' = Append(trace, [seg |-> idx, kind |-> cmdBuiltin,
                                           config |-> r.config])
                /\ UNCHANGED <<input, segs, idx, prevExecution, linesRead,
                               parseVars, aggVars, resolveVars, stdinVars>>
           ELSE Returned(r.config, cmdBuiltin)
    /\ UNCHANGED <<written, cwd, fs>>

\* executeCommand calls handlePwd
ExecPwd ==
    /\ InLoop
    /\ Len(CurSeg) > 0
    /\ CurKind = cmdBuiltin
    /\ CurConfig.commandName = W_pwd
    /\ Returned(handlePwd(CurConfig, cwd), cmdBuiltin)
    /\ UNCHANGED <<written, cwd, fs>>

\* executeCommand calls handleType
ExecType ==
    /\ InLoop
    /\ Len(CurSeg) > 0
    /\ CurKind = cmdBuiltin
    /\ CurConfig.commandName = W_type
    /\ \E c \in handleType(CurConfig, fs, cwd) : Returned(c, cmdBuiltin)
    /\ UNCHANGED <<written, cwd, fs>>

\* executeCommand calls execSystemCommand with the resolved path
ExecSystem ==
    /\ InLoop
    /\ Len(CurSeg) > 0
    /\ CurKind = cmdSystem
    /\ LET path == getSystemCommand(CurConfig.commandName, fs, cwd).path
       IN  \E c \in execSystemCommand([CurConfig EXCEPT !.commandName = path],
                                      fs, cwd) :
              Returned(c, cmdSystem)
    /\ UNCHANGED <<written, cwd, fs>>

\* executeCommand calls handleNotFound
ExecNotFound ==
    /\ InLoop
    /\ Len(CurSeg) > 0
    /\ CurKind = cmdNotFound
    /\ Returned(handleNotFound(CurConfig), cmdNotFound)
    /\ UNCHANGED <<written, cwd, fs>>

\* the loop is over: handleInput reports
Report ==
    /\ pc = "run"
    /\ idx > Len(segs)
    /\ written' = written \o reportOutput(prevExecution)
    /\ pc' = "reported"
    /\ UNCHANGED <<input, segs, idx, prevExecution, trace, cwd, exitStatus,
                   linesRead, fs, parseVars, aggVars, resolveVars, stdinVars>>

\* handleInput returns to the loop of main: its locals are gone
Return ==
    /\ pc = "reported"
    /\ pc' = "read"
    /\ input' = <<>>
    /\ segs' = <<>>
    /\ idx' = 1
    /\ prevExecution' = newExecutionConfig(<<>>, <<>>)
    /\ trace' = <<>>
    /\ written' = <<>>
    /\ UNCHANGED <<cwd, exitStatus, linesRead, fs, parseVars, aggVars, resolveVars, stdinVars>>

Next ==
    \/ ReadLine
    \/ ReadEOF
    \/ SkipEmpty
    \/ ExecRedirect
    \/ ExecCd
    \/ ExecEcho
    \/ ExecExit
    \/ ExecPwd
    \/ ExecType
    \/ ExecSystem
    \/ ExecNotFound
    \/ Report
    \/ Return

Spec == Init /\ [][Next]_vars

\* ------------------------------------------------------------------------
\* Tokenizer properties (SpecParse)
\* ------------------------------------------------------------------------
RECURSIVE UnquotedLiteral(_, _)
\* the characters a quote-free line stands for: every character after an
\* unescaped backslash, and every other character that is neither a space
\* nor a backslash; esc says that the previous character was an unescaped
\* backslash
UnquotedLiteral(line, esc) ==
    IF line = <<>> THEN <<>>
    ELSE IF esc THEN <<Head(line)>> \o UnquotedLiteral(Tail(line), FALSE)
    ELSE IF Head(line) = "\\" THEN UnquotedLiteral(Tail(line), TRUE)
    ELSE IF Head(line) = " " THEN UnquotedLiteral(Tail(line), FALSE)
    ELSE <<Head(line)>> \o UnquotedLiteral(Tail(line), FALSE)

\* the line has no quote and no multi-byte rune
PlainLine(line) == \A k \in 1..Len(line) : line[k] \in {"a", " ", "\\"}

\* C2: a backslash read in the Unquoted state makes the next character X
\* part of the Word literally, and the state is Unquoted again after X; on
\* a line without quotes, the Words parseArgs returns hold exactly the
\* escaped characters and the unescaped non-space characters.
C2_UnquotedEscapeLiteral ==
    /\ (pK > 0 /\ pPrev.state = unquotedEscaped) => pSt.state = unquoted
    /\ (pDone /\ PlainLine(pInput)) =>
           Flatten(pSt.args) = UnquotedLiteral(pInput, FALSE)

\* ------------------------------------------------------------------------
\* Segmenter properties (SpecAgg)
\* ------------------------------------------------------------------------
\* number of Words of args that end in ">"
Markers(args) == Cardinality({i \in 1..Len(args) : isRedirect(args[i])})

\* C3 as stated: every Word sequence, the empty one included, yields
\* 1 + (number of marker Words) Segments.
C3_SegmentCount == aDone => Len(aOut) = 1 + Markers(aArgs)

\* C3: a non-empty Word sequence yields 1 + (number of marker Words)
\* Segments; the empty Word sequence yields no Segment.
C3_SegmentCountNonEmpty ==
    aDone => Len(aOut) = IF aArgs = <<>> THEN 0 ELSE 1 + Markers(aArgs)

C3_Witness == aDone /\ Len(aArgs) = 4 /\ Markers(aArgs) = 2 /\ Len(aOut) = 3

\* C4: the Words of the Segments, concatenated in order, are the original
\* Word sequence.
C4_ConcatReproduces == aDone => Flatten(aOut) = aArgs

C4_Witness ==
    /\ aDone
    /\ Len(aOut) = 2
    /\ Len(aOut[1]) = 1
    /\ Len(aOut[2]) = 2
    /\ isRedirect(aOut[2][1])

\* ------------------------------------------------------------------------
\* Resolver properties (SpecResolve)
\* ------------------------------------------------------------------------
\* C5: the handler is chosen in the order Redirect, Builtin, System,
\* NotFound: a name ending in ">" goes to the redirect handler and a
\* built-in name to the built-in, whatever the PATH directories hold.
C5_Precedence ==
    rDone =>
        /\ isRedirect(rName) => rKind = cmdCompound
        /\ (~isRedirect(rName) /\ rName \in BuiltinNames) => rKind = cmdBuiltin
        /\ rKind = cmdSystem => (~isRedirect(rName) /\ rName \notin BuiltinNames)
        /\ rKind = cmdNotFound => (~isRedirect(rName) /\ rName \notin BuiltinNames)

C5_Witness ==
    /\ rDone
    /\ rName = W_echo
    /\ getSystemCommand(W_echo, fs, cwd).cmdType = cmdSystem
    /\ rKind = cmdBuiltin

\* indexes of the PATH directories that hold a regular file named name with
\* some execute bit set
ExecutableIn(name) ==
    {i \in 1..Len(PathDirs) :
        /\ StatOk(fs, cwd, PathJoin(PathDirs[i], name))
        /\ ~StatNode(fs, cwd, PathJoin(PathDirs[i], name)).isDir
        /\ \E b \in {64, 8, 1} :
              (StatNode(fs, cwd, PathJoin(PathDirs[i], name)).perm \div b) % 2 = 1}

\* C6: a name that is neither a redirect nor a built-in is System iff some
\* PATH directory holds a regular file of that name with an execute bit
\* set, and the handle is its path in the first such directory.
C6_SystemIffRegularExecutable ==
    (rDone /\ ~isRedirect(rName) /\ rName \notin BuiltinNames) =>
        /\ rKind = cmdSystem <=> ExecutableIn(rName) # {}
        /\ rKind = cmdSystem =>
              \E i \in ExecutableIn(rName) :
                  /\ rPath = PathJoin(PathDirs[i], rName)
                  /\ \A j \in ExecutableIn(rName) : i <= j

\* ------------------------------------------------------------------------
\* Engine properties (Spec)
\* ------------------------------------------------------------------------
\* the last Segment executed for the current line
LastRun == trace[Len(trace)]

\* the context prevExecution held when the last Segment was executed
BeforeLastRun ==
    IF Len(trace) = 1 THEN newExecutionConfig(<<>>, <<>>)
    ELSE trace[Len(trace) - 1].config

\* C1: after a redirect Segment that ends with status 0, the target file
\* holds exactly the previous context's stdout followed by the Segment's
\* arguments after the file name, whatever the file held before.
C1_RedirectFileIsPayload ==
    (trace # <<>> /\ LastRun.kind = cmdCompound /\ LastRun.config.status = 0) =>
        fs[AbsPath(cwd, LastRun.config.args[2])].content =
            BeforeLastRun.stdOut \o Join(Drop(LastRun.config.args, 2), <<>>)

\* the loop of handleInput is at a Segment whose command is the built-in name
AtBuiltin(name) ==
    /\ InLoop
    /\ Len(CurSeg) > 0
    /\ CurKind = cmdBuiltin
    /\ CurConfig.commandName = name

\* C7: cd to a path that does not exist leaves the working directory as it
\* was and returns status 1 with stderr
\* "cd: <path>: No such file or directory".
C7_CdMissingPath ==
    [][(AtBuiltin(W_cd) /\ ~StatOk(fs, cwd, CdPath(CurConfig))) =>
          /\ cwd' = cwd
          /\ prevExecution'.status = 1
          /\ prevExecution'.stdErr =
                 MsgCdPrefix \o CdPath(CurConfig) \o MsgCdSuffix]_vars

C7_Witness ==
    /\ trace # <<>>
    /\ LastRun.config.args = <<W_cd, W_3>>
    /\ prevExecution.status = 1
    /\ prevExecution.stdErr = MsgCdPrefix \o W_3 \o MsgCdSuffix
    /\ cwd = DirRoot

\* C8: exit with one argument that parses as the integer N ends the
\* process with status N, and nothing of the line runs after it.
C8_ExitWithStatus ==
    [][/\ pc # "exited"
       /\ (AtBuiltin(W_exit) /\ Len(CurSeg) = 2 /\ Atoi(CurSeg[2]).ok) =>
              /\ pc' = "exited"
              /\ exitStatus' = Atoi(CurSeg[2]).val]_vars

C8_Witness ==
    /\ pc = "exited"
    /\ exitStatus = 3
    /\ trace # <<>>
    /\ LastRun.config.args = <<W_exit, W_3>>
    /\ idx < Len(segs)
    /\ PathJoin(DirRoot, W_f) \notin DOMAIN fs

\* the process was ended by exit with the single argument of the last
\* Segment executed, which is no integer
ExitedOnParseError ==
    /\ pc = "exited"
    /\ trace # <<>>
    /\ LastRun.config.commandName = W_exit
    /\ Len(LastRun.config.args) = 2
    /\ ~Atoi(LastRun.config.args[2]).ok

\* C9 as stated: exit with one non-numeric argument records the parse
\* error in stderr and ends the process with status 0.
C9_ExitParseErrorStatus0 ==
    ExitedOnParseError =>
        /\ LastRun.config.stdErr =
               MsgAtoiPrefix \o LastRun.config.args[2] \o MsgAtoiSuffix
        /\ exitStatus = 0

\* C9: exit with one non-numeric argument records the parse error in stderr
\* and ends the process with status 1, the default of a new context.
C9_ExitParseErrorStatus1 ==
    ExitedOnParseError =>
        /\ LastRun.config.stdErr =
               MsgAtoiPrefix \o LastRun.config.args[2] \o MsgAtoiSuffix
        /\ exitStatus = 1

C9_Witness ==
    /\ pc = "exited"
    /\ trace # <<>>
    /\ LastRun.config.args = <<W_exit, W_d>>
    /\ exitStatus = 1

\* C10: exit with more than one argument does not end the process: it
\* returns status 1 with stderr "too many arguments", and the loop goes on
\* to the next Segment.
C10_ExitTooManyArguments ==
    [][(AtBuiltin(W_exit) /\ Len(CurSeg) > 2) =>
          /\ pc' = "run"
          /\ idx' = idx + 1
          /\ prevExecution'.status = 1
          /\ prevExecution'.stdErr = MsgTooManyArguments]_vars

C10_Witness ==
    /\ pc = "reported"
    /\ linesRead = 1
    /\ Len(trace) = 2
    /\ trace[1].config.args = <<W_exit, W_3, W_3>>
    /\ trace[1].config.stdErr = MsgTooManyArguments
    /\ trace[2].kind = cmdCompound
    /\ trace[2].config.status = 0

\* ---------------------------------------------------------------------
\* The report of handleInput
\* ---------------------------------------------------------------------

\* the context of the last Segment the loop executed; the initial context
\* when it executed none
LastContext ==
    IF trace = <<>> THEN newExecutionConfig(<<>>, <<>>) ELSE LastRun.config

\* handleInput passes from its loop to its report
ReportStep == pc = "run" /\ pc' = "reported"

EscapableInDoubleQuotes == {"\"", "$", Backtick, "\\", "\n"}

\* the line "\a" in double quotes
QuotedBackslashA == <<"\"", "\\", "a", "\"">>

\* C12: an iteration of parseArgs that starts in doubleQuotedEscaped always
\* ends in doubleQuoted; it appends the character alone when the character
\* is one of double quote, dollar, backtick, backslash and newline, and the
\* backslash followed by the character otherwise; the line "\a" in double
\* quotes yields the one Word \a.
C12_DoubleQuotedEscape ==
    [][/\ (~pDone /\ pK < Len(pInput) /\ pSt.state = doubleQuotedEscaped) =>
            LET x == pInput[pK + 1]
                add == IF x \in EscapableInDoubleQuotes THEN <<x>>
                       ELSE <<"\\", x>>
                buf == pSt.currWord \o add
            IN  /\ pSt'.state = doubleQuoted
                /\ IF Len(pSt'.args) > Len(pSt.args)
                   THEN /\ pSt'.args = Append(pSt.args, TrimSpace(buf))
                        /\ pSt'.currWord = <<>>
                   ELSE /\ pSt'.args = pSt.args
                        /\ pSt'.currWord = buf
       /\ (pDone' /\ pInput' = QuotedBackslashA) =>
            pSt'.args = << <<"\\", "a">> >>]_vars

C12_Witness ==
    /\ pDone
    /\ pInput = QuotedBackslashA
    /\ pSt.args = << <<"\\", "a">> >>

\* the line parseArgs is given is one handleInput can pass: it is trimmed
TrimmedLine == TrimSpace(pInput) = pInput

\* C13: parseArgs never emits an empty Word: whatever the line, also one
\* that ends in a closing quote or in a lone backslash, no Word of its
\* result is empty.
C13_NoEmptyWord ==
    TrimmedLine => \A k \in 1..Len(pSt.args) : pSt.args[k] # <<>>

\* C19: the end of the input forces a word boundary: when parseArgs
\* returns, whatever the state and also after a final escape or an
\* unterminated quote, the characters accumulated since the last boundary
\* have been emitted as the final Word and none is left in the buffer.
C19_EndOfInputEmits ==
    (pDone /\ TrimmedLine) => pSt.currWord = <<>>

\* ---------------------------------------------------------------------
\* The contexts the handlers return
\* ---------------------------------------------------------------------

\* the Segments executed so far on this line whose handler returned a
\* context (handleExit terminating the process returns none)
ReturnedRuns == {k \in 1..Len(trace) : k < Len(trace) \/ pc # "exited"}

\* C14: every error a handler reports is returned as status 1 with the
\* description of the error in stderr: no returned context has a status
\* other than 0 with an empty stderr (the error text in stdout or nowhere).
C14_ErrorsInStderr ==
    \A k \in ReturnedRuns :
        trace[k].config.status # 0 =>
            /\ trace[k].config.status = 1
            /\ trace[k].config.stdErr # <<>>

\* C15: in every context a handler returns, stdout and stderr are not both
\* non-empty: with status 0 stderr is empty, with another status stdout is
\* empty.
C15_OneStream ==
    \A k \in ReturnedRuns :
        LET c == trace[k].config
        IN  /\ ~(c.stdOut # <<>> /\ c.stdErr # <<>>)
            /\ c.status = 0 => c.stdErr = <<>>
            /\ c.status # 0 => c.stdOut = <<>>

\* ---------------------------------------------------------------------
\* The writes of a line
\* ---------------------------------------------------------------------

\* C16: for every input line the shell writes to standard output or to the
\* error stream at most once, and only after all Segments have completed:
\* nothing is written while the loop of handleInput is running.
C16_WriteOncePerLine ==
    /\ pc = "run" => written = <<>>
    /\ pc = "reported" => Len(written) <= 1

\* C16 (amended): while the Segments of a line are processed the only
\* writes are those of handleRedirect, which prints the previous context's
\* stderr, when it is not empty, on the error stream before it opens the
\* file; handleInput itself writes once at most, after the last Segment.
C16_WritesOfALine ==
    [][(written' # written /\ pc = "run") =>
          \/ /\ ReportStep
             /\ idx > Len(segs)
             /\ Len(written') = Len(written) + 1
             /\ SubSeq(written', 1, Len(written)) = written
          \/ /\ InLoop
             /\ pc' = "run"
             /\ Len(CurSeg) >= 2
             /\ CurKind = cmdCompound
             /\ prevExecution.stdErr # <<>>
             /\ written' = Append(written, [fd |-> "stderr",
                                            text |-> prevExecution.stdErr])]_vars

C16_Witness ==
    /\ pc = "reported"
    /\ Len(written) = 2
    /\ Len(trace) = 2
    /\ written[1] = [fd |-> "stderr", text |-> trace[1].config.stdErr]
    /\ written[2] = [fd |-> "stderr",
                     text |-> TrimSpace(trace[2].config.stdErr) \o <<"\n">>]

\* ---------------------------------------------------------------------
\* type with several names
\* ---------------------------------------------------------------------

\* the line was the one command type and handleInput has reported
TypeReported ==
    /\ pc = "reported"
    /\ Len(trace) = 1
    /\ LastRun.kind = cmdBuiltin
    /\ LastRun.config.args[1] = W_type

\* the names given to type
TypeNames == Drop(LastRun.config.args, 1)

\* a name type finds: a builtin, or an executable of a PATH directory
Resolves(x) ==
    \/ getBuiltinCommand(x) # cmdNotFound
    \/ getSystemCommand(x, fs, cwd).cmdType # cmdNotFound

\* the line type reports for a name it does not find
NotFoundLine(x) == x \o MsgNotFound \o <<"\n">>

\* C17: for type with several names the reported result is that of the
\* last name alone: when the last name is not found the line reports
\* "<name>: not found" on the error stream with a status other than 0, even
\* when an earlier name was found.
C17_LastNameDecides ==
    (/\ TypeReported
     /\ Len(TypeNames) >= 2
     /\ ~Resolves(TypeNames[Len(TypeNames)])) =>
        /\ LastRun.config.status # 0
        /\ written = <<[fd |-> "stderr",
                        text |-> NotFoundLine(TypeNames[Len(TypeNames)])]>>

\* the names given to type: two that are found, a builtin and a program of
\* /b1, and two that are not
TypeArgWords == {W_echo, W_ls, W_3, W_x}

\* the lines of standard input that are one type command
TypeLines ==
    {Join(<<W_type>> \o as, <<" ">>) \o <<"\n">> :
        as \in SeqsUpTo(TypeArgWords, MaxArgs + 1)}

\* main reads a type line and calls handleInput, which runs up to its loop
ReadTypeLine ==
    /\ pc = "read"
    /\ linesRead < MaxLines
    /\ \E l \in TypeLines :
         /\ input' = l
         /\ segs' = aggregateArgs(parseArgs(TrimSpace(l)))
    /\ idx' = 1
    /\ prevExecution' = newExecutionConfig(<<>>, <<>>)
    /\ trace' = <<>>
    /\ written' = <<>>
    /\ linesRead' = linesRead + 1
    /\ pc' = "run"
    /\ UNCHANGED <<cwd, exitStatus, fs, parseVars, aggVars, resolveVars, stdinVars>>

NextType == ReadTypeLine \/ ExecType \/ Report \/ Return

\* the shell given type commands only
SpecType == Init /\ [][NextType]_vars

\* the line was the one command type and handleType has returned
TypeRan ==
    /\ pc \in {"run", "reported"}
    /\ Len(trace) = 1
    /\ LastRun.kind = cmdBuiltin
    /\ LastRun.config.args[1] = W_type

\* the contexts handleType can return for the line, and what handleInput
\* reports for each of them
TypeOutcomes ==
    handleType(newExecutionConfig(W_type, LastRun.config.args), fs, cwd)

TypeReports == {reportOutput(c) : c \in TypeOutcomes}

\* the distinct names given to type, those it finds and the others
DistinctNames == {TypeNames[k] : k \in 1..Len(TypeNames)}

FoundNames == {x \in DistinctNames : Resolves(x)}

MissingNames == DistinctNames \ FoundNames

C20_MarkersLeadSegments ==
    aDone =>
        /\ \A s \in 1..Len(aOut) : \A j \in 1..Len(aOut[s]) :
              isRedirect(aOut[s][j]) => j = 1
        /\ \A s \in 2..Len(aOut) :
              /\ aOut[s] # <<>>
              /\ isRedirect(aOut[s][1])
              /\ commandKind(TrimSpace(aOut[s][1]), fs, cwd) = cmdCompound
        /\ \A s \in 1..Len(aOut) :
              (aOut[s] # <<>> /\ ~isRedirect(aOut[s][1])) =>
                  commandKind(TrimSpace(aOut[s][1]), fs, cwd) # cmdCompound

C20_Witness ==
    /\ aDone
    /\ aArgs = <<W_a, W_gt, W_a, W_2gt>>
    /\ aOut = << <<W_a>>, <<W_gt, W_a>>, <<W_2gt>> >>

\* ---------------------------------------------------------------------
\* The loop of handleInput over the Segments
\* ---------------------------------------------------------------------

\* the non-empty Segments the loop has passed
NonEmptyPassed == {s \in 1..Len(segs) : s < idx /\ segs[s] # <<>>}

\* the Segments executed so far are the non-empty Segments passed, each
\* once and in Segment order, each with its own Words
ExecutedInOrder ==
    /\ Len(trace) = Cardinality(NonEmptyPassed)
    /\ \A k \in 1..Len(trace) :
          /\ trace[k].seg \in NonEmptyPassed
          /\ trace[k].config.args = segs[trace[k].seg]
    /\ \A k \in 1..Len(trace) : \A j \in 1..Len(trace) :
          k < j => trace[k].seg < trace[j].seg

\* C21: on a line that does not reach a terminating exit, handleInput
\* executes every non-empty Segment exactly once, in Segment order,
\* whatever the status of the earlier Segments: the loop goes on to the
\* next Segment after a failed one, it has passed all Segments when
\* handleInput reports, and passing an empty Segment changes nothing but
\* the position of the loop.
C21_EverySegmentOnce ==
    [][/\ (pc' \in {"run", "reported"}) => ExecutedInOrder'
       /\ (pc' = "reported") => idx' = Len(segs') + 1
       /\ (InLoop /\ pc' = "run" /\ Len(trace') > Len(trace)) =>
             idx' = idx + 1
       /\ (InLoop /\ CurSeg = <<>>) =>
             /\ idx' = idx + 1
             /\ UNCHANGED <<pc, prevExecution, trace, written, fs, cwd,
                            exitStatus>>]_vars

C21_Witness ==
    /\ pc = "reported"
    /\ Len(segs) = 2
    /\ Len(trace) = 2
    /\ trace[1].seg = 1
    /\ trace[1].config.status # 0
    /\ trace[2].seg = 2

\* ---------------------------------------------------------------------
\* The loop of main over standard input
\* ---------------------------------------------------------------------

\* the lines standard input can be given
StdinLines ==
    {Join(ws, <<" ">>) \o <<"\n">> : ws \in {<<W_echo, W_3>>, <<W_x>>}}

InitStdin ==
    /\ fs \in InitFilesystems
    /\ supplied \in SeqsUpTo(StdinLines, MaxSupplied)
    /\ stdin = Flatten(supplied)
    /\ handled = <<>>
    /\ ShellIdle
    /\ ParseIdle
    /\ AggIdle
    /\ ResolveIdle

\* the bytes hold the delimiter ReadString looks for
HasNewline(bytes) == \E p \in 1..Len(bytes) : bytes[p] = "\n"

\* the place of the first newline
FirstNewline(bytes) ==
    CHOOSE p \in 1..Len(bytes) :
        /\ bytes[p] = "\n"
        /\ \A q \in 1..(p - 1) : bytes[q] # "\n"

\* main makes a new bufio.Reader and calls ReadString: the reader fills its
\* buffer with reads of standard input until the buffer holds a newline,
\* each read taking as many bytes as are available to it; n is the number
\* of bytes the reader has taken when it returns the line. The reader and
\* the bytes it holds past the newline are dropped; handleInput is called
\* with the line.
ReadString ==
    /\ pc = "read"
    /\ HasNewline(stdin)
    /\ \E n \in FirstNewline(stdin)..Len(stdin) :
         LET line == SubSeq(stdin, 1, FirstNewline(stdin))
         IN  /\ stdin' = SubSeq(stdin, n + 1, Len(stdin))
             /\ input' = line
             /\ segs' = aggregateArgs(parseArgs(TrimSpace(line)))
             /\ handled' = Append(handled, line)
    /\ idx' = 1
    /\ prevExecution' = newExecutionConfig(<<>>, <<>>)
    /\ trace' = <<>>
    /\ written' = <<>>
    /\ linesRead' = linesRead + 1
    /\ pc' = "run"
    /\ UNCHANGED <<supplied, cwd, exitStatus, fs, parseVars, aggVars,
                   resolveVars>>

\* ReadString reaches the end of standard input before a newline: main
\* prints the closing message and exits
ReadStringEOF ==
    /\ pc = "read"
    /\ ~HasNewline(stdin)
    /\ stdin' = <<>>
    /\ written' = <<[fd |-> "stdout", text |-> MsgClosing \o <<"\n">>]>>
    /\ exitStatus' = 0
    /\ pc' = "exited"
    /\ UNCHANGED <<supplied, handled, input, segs, idx, prevExecution, trace,
                   cwd, linesRead, fs, parseVars, aggVars, resolveVars>>

NextStdin ==
    \/ ReadString
    \/ ReadStringEOF
    \/ ExecEcho
    \/ ExecNotFound
    \/ Report
    \/ Return

\* the shell reading its lines from a stream of bytes
SpecStdin == InitStdin /\ [][NextStdin]_vars

\* one sequence is the beginning of the other
IsPrefix(s, t) == Len(s) <= Len(t) /\ SubSeq(t, 1, Len(s)) = s

\* C22: every newline-terminated line given on standard input before its
\* end is passed to handleInput exactly once and in order, also when
\* several lines are available to one read: the lines handled so far are
\* the first lines given, and all of them once main has reached the end of
\* the input.
C22_EveryLineHandledOnce ==
    /\ IsPrefix(handled, supplied)
    /\ pc = "exited" => handled = supplied

====
